---- MODULE Spec2Model ----
(***************************************************************************)
(* Model of the record store of memory_manager.py: class                   *)
(* BiographicalMemory (per-thread sqlite3 connections kept in the dict     *)
(* self.connections, store / retrieve / batch_store / get_all_people /     *)
(* close) running against one database file shared by the threads of the   *)
(* process.                                                                *)
(*                                                                         *)
(* The engine (sqlite3 as driven by Python's sqlite3 module with its       *)
(* default settings) is modelled by what the calls of the source do:       *)
(*   - an INSERT issued outside a transaction first issues BEGIN, so the   *)
(*     connection stays inside a transaction until commit(), rollback() or *)
(*     close(); the source never calls rollback();                         *)
(*   - a write needs the single write lock of the file; a writer that      *)
(*     finds the lock held by another connection waits up to               *)
(*     the connect() timeout and then raises OperationalError              *)
(*     ("database is locked");                                             *)
(*   - a SELECT executed inside an open transaction pins the read snapshot *)
(*     of the connection until the transaction ends; a write attempted on  *)
(*     a pinned snapshot that is no longer the newest one fails at once;   *)
(*   - uncommitted rows are visible to the connection that wrote them and  *)
(*     to no other connection.                                             *)
(***************************************************************************)
EXTENDS Integers, Sequences, FiniteSets, TLC

(***************************************************************************)
(* Bounds of the model.                                                    *)
(***************************************************************************)
\* number of worker threads next to the constructing (main) thread
NumWorkers == 1
\* largest rowid the table may reach: bounds the number of inserted rows
MaxRowid == 2
\* largest number of records passed to one batch_store call
MaxBatch == 2
\* largest number of runs in the history file of PerformanceMetrics
MaxRuns == 2
\* largest number of samples logged into one run
MaxSamples == 1

\* thread 0 is the thread that constructs the store, 1..NumWorkers are workers
Threads == 0..NumWorkers
\* values threading.get_ident() can return; a live thread's value is unique
\* among live threads, an exited thread's value can be handed out again
Idents == 1..(NumWorkers + 1)

(***************************************************************************)
(* Python values and SQL values.                                           *)
(***************************************************************************)
PyNone == [ty |-> "NoneType", v |-> ""]
PyStr(s) == [ty |-> "str", v |-> s]
PyInt(s) == [ty |-> "int", v |-> s]

SqlNull == [ty |-> "null", v |-> ""]
SqlText(s) == [ty |-> "text", v |-> s]
SqlInteger(s) == [ty |-> "integer", v |-> s]

\* Python truth value of an object (the `not name` test)
Truthy(x) ==
    CASE x.ty = "NoneType" -> FALSE
      [] x.ty = "str" -> x.v # ""
      [] x.ty = "int" -> x.v # "0"
      [] OTHER -> TRUE

\* the columns of table biographies
Columns ==
    {"name", "birth_year", "birth_place", "death_year", "death_place",
     "occupation", "achievement", "education", "nationality", "known_for"}
DataColumns == Columns \ {"name"}
TextColumns == Columns \ {"birth_year", "death_year"}

\* value stored in a column when a Python value is bound to it:
\* None is NULL, a TEXT column turns a number into its text, an INTEGER
\* column keeps a number
BindTo(col, x) ==
    CASE x.ty = "NoneType" -> SqlNull
      [] x.ty = "str" -> SqlText(x.v)
      [] x.ty = "int" -> IF col \in TextColumns THEN SqlText(x.v)
                         ELSE SqlInteger(x.v)
      [] OTHER -> SqlNull

\* Python value the sqlite3 module returns for a stored value
SqlToPy(s) ==
    CASE s.ty = "null" -> PyNone
      [] s.ty = "text" -> PyStr(s.v)
      [] s.ty = "integer" -> PyInt(s.v)
      [] OTHER -> PyNone

\* dict.get(key): the value, None when the key is missing
DictGet(d, c) == IF c \in DOMAIN d THEN d[c] ELSE PyNone

(***************************************************************************)
(* Inputs of the calls.                                                    *)
(***************************************************************************)
\* the `name` arguments passed to store
StoreNames == {PyStr("a"), PyStr("b"), PyStr(""), PyNone, PyInt("5")}
\* the `data` dicts passed to store: keys that are missing stay missing
EmptyDict == [c \in {} |-> PyNone]
\* (values have the declared type of their column)
StoreData ==
    {[c \in {"occupation"} |-> PyStr("x")],
     [c \in {"birth_year"} |-> PyInt("1")]}
\* the `name` and `field` arguments passed to retrieve
RetrieveNames == {PyStr("a")}
RetrieveFields == {"occupation", "shoe_size"}

\* a batch record holding every named parameter of the INSERT statement
FullRecord(n) == [c \in Columns |-> IF c = "name" THEN n ELSE PyNone]
\* a batch record without the key 'name'
NamelessRecord == [c \in DataColumns |-> PyNone]
BatchRecords ==
    {FullRecord(PyStr("a")), FullRecord(PyStr("")), FullRecord(PyNone),
     NamelessRecord}
BatchInputs == UNION {[1..n -> BatchRecords] : n \in 0..MaxBatch}
\* good records followed by one record of any kind, like [valid, valid, invalid]
BatchWorkload ==
    {b \in BatchInputs :
        \A k \in 1..(Len(b) - 1) : b[k] = FullRecord(PyStr("a"))}

(***************************************************************************)
(* State.                                                                  *)
(***************************************************************************)
VARIABLES
    alive,        \* alive[t]: thread t is running
    ident,        \* ident[t]: threading.get_ident() of thread t
    pc,           \* pc[t]: where thread t is inside its current call
    call,         \* call[t]: the arguments of the call thread t is about to commit
    obs,          \* the call that returned last, with its outcome
    connections,  \* self.connections: get_ident() value -> connection
    connOrder,    \* insertion order of the keys of self.connections
    table,        \* committed rows of table biographies
    writer,       \* the connection (its key) holding the write lock, or {}
    work,         \* rows as seen by the writer: committed rows + its own changes
    leaked,       \* a commit has published rows left by a failed batch_store
    lastStored,   \* lastStored[k]: {f} for the last store(k, f) that returned, else {}
    called,       \* the keys passed to store so far
    dup,          \* some key has been passed to store more than once
    connection,   \* self.connection of AirQualityMemory: its thread, its transaction
    air_quality,  \* rows of table air_quality, in id order
    node,         \* a TreeNode: its byte, children and value
    db_path,      \* self.db_path: the path given to the constructor
    database,     \* the database file: its journal mode, whether the table exists
    history,      \* content of the file self.filename of PerformanceMetrics
    current_metrics  \* self.current_metrics of PerformanceMetrics

vars == <<alive, ident, pc, call, obs, connections, connOrder, table, writer,
          work, leaked, lastStored, called, dup, connection, air_quality, node, db_path, database, history,
          current_metrics>>

\* no entry of self.connections under this key
NoConn == [present |-> FALSE, open |-> FALSE, inTx |-> FALSE, pinned |-> FALSE,
           snap |-> {}, orphan |-> FALSE, dirty |-> FALSE, schema |-> FALSE,
           pragmas |-> <<>>]
\* sqlite3.connect(self.db_path): open, in autocommit state, nothing read yet.
\* orphan: the thread that opened it has exited; dirty: holds rows of a failed
\* batch_store (both only record history); schema: table biographies exists
\* in the database the connection is on; pragmas: the statements of
\* OPTIMIZATION_PRAGMAS executed on it so far
NewConn == [present |-> TRUE, open |-> TRUE, inTx |-> FALSE, pinned |-> FALSE,
            snap |-> {}, orphan |-> FALSE, dirty |-> FALSE, schema |-> FALSE,
            pragmas |-> <<>>]

OPTIMIZATION_PRAGMAS ==
    <<"PRAGMA journal_mode=WAL", "PRAGMA synchronous=NORMAL",
      "PRAGMA cache_size=10000", "PRAGMA temp_store=MEMORY",
      "PRAGMA mmap_size=30000000000">>

\* the paths given to the constructor: a database file, or a private
\* in-memory database for each connection
FilePath == "bio_memory.db"
MemoryPath == ":memory:"

\* sqlite3.connect(self.db_path) once the store is constructed: a database
\* file holds the table the constructor created, an in-memory database is
\* new and empty
Connect == [NewConn EXCEPT !.schema = (db_path # MemoryPath)]

\* the connection _initialize_db leaves to the constructing thread: every
\* pragma executed in list order, the table created, the transaction
\* committed
InitializedConn ==
    [NewConn EXCEPT !.schema = TRUE, !.pragmas = OPTIMIZATION_PRAGMAS]

\* the categories of a run that print_comparison reads
Categories == {"insertion_rates", "retrieval_rates", "concurrent_rates"}

\* the database file before any store was constructed on it, and once
\* _initialize_db has run: the journal mode is WAL (it is kept in the file)
\* and the table exists
FreshDatabase == [journal |-> "delete", schema |-> FALSE]
InitializedDatabase == [journal |-> "wal", schema |-> TRUE]

\* PerformanceMetrics._create_empty_metrics(): `keys` are the categories the
\* dict has, `stamped` is whether 'timestamp' is set
EmptyMetrics ==
    [keys |-> Categories, stamped |-> FALSE, insertion_rates |-> <<>>,
     retrieval_rates |-> <<>>, concurrent_rates |-> <<>>]

\* Content of the history file: `kind` is "missing" (no file), "unparseable"
\* (not JSON), "list" (a JSON list, its elements in `runs`), "object" (a JSON
\* object with `size` keys) or "number" (a JSON number).  json.dump and
\* json.load map the lists, dicts, strings, numbers and None of a run to
\* themselves.
HistoryFile(kind, runs, size) == [kind |-> kind, runs |-> runs, size |-> size]
MissingFile == HistoryFile("missing", <<>>, 0)

\* `foreign` records that the call got a connection opened by an exited thread
\* For a save_metrics, `records` is the list json.load returned and `seen`
\* the runs the file held when the call opened it for writing.
NoCall == [op |-> "none", name |-> PyNone, data |-> EmptyDict, records |-> <<>>,
           foreign |-> FALSE, seen |-> <<>>]

\* For a retrieve, `found` records what the SELECT met ("norow": no row of
\* that name, "null": a row whose column is NULL, "value": a row whose column
\* is set, "": no SELECT ran) and `want` the value of the field in the dict
\* of the last store of that name that returned ({} when there is none)
\* For a batch_store, `ids` is the list it returned.  For a get_connection,
\* `by` is the get_ident() value of the caller.  For a get_all_people and a
\* batch_retrieve, `rows` are the rows of the list it returned; for a
\* batch_retrieve, `ids` is its argument and `want` the committed rows whose
\* rowid is in it.  `batch_size` is the second argument a batch_store was
\* called with (0 when it was called with the records alone).  For a store
\* and a get_history of AirQualityMemory, `data_string`, `timestamp`,
\* `start_date` and `end_date` are the arguments and `fetched` is the list
\* get_history returned.  For a set_child and a get_child, `index` is the
\* index and `ret` the child passed or returned.  For a print_comparison,
\* `reported` are the categories it printed a change for.
NoObs == [op |-> "none", name |-> PyNone, field |-> "", records |-> <<>>,
          raised |-> "", ret |-> PyNone, foreign |-> FALSE, found |-> "",
          want |-> {}, ids |-> <<>>, by |-> {}, rows |-> {}, batch_size |-> 0,
          data_string |-> [ty |-> "NoneType", v |-> <<>>],
          timestamp |-> [ty |-> "NoneType", v |-> <<>>],
          start_date |-> [ty |-> "NoneType", v |-> <<>>],
          end_date |-> [ty |-> "NoneType", v |-> <<>>],
          fetched |-> <<>>, index |-> 0, reported |-> {}]

\* a Python list, as the value a call returns
PyList == [ty |-> "list", v |-> ""]

Max(S) == CHOOSE x \in S : \A y \in S : y <= x

\* the rowid sqlite gives a new row of a table without INTEGER PRIMARY KEY
NextRowid(T) == IF T = {} THEN 1 ELSE Max({r.rowid : r \in T}) + 1

\* rows a statement of connection i reads
View(i) ==
    IF writer = {i} THEN work
    ELSE IF connections[i].pinned THEN connections[i].snap
    ELSE table

\* the pinned snapshot of connection i, if any, is still the newest state
Current(i) == ~connections[i].pinned \/ connections[i].snap = table

\* connection i can start or continue writing
CanWrite(i) == writer = {i} \/ (writer = {} /\ Current(i))

\* the rows a write of connection i starts from
WriteBase(i) == IF writer = {i} THEN work ELSE table

\* Variants of the definitions below that the properties at the end of the
\* module must tell apart from them:
\* an insert that throws the other rows away
InsertDroppingOthers(T, n, d) ==
    {[rowid |-> NextRowid(T), name |-> n, data |-> d]}
\* an update that keeps the old value of every column the new map leaves NULL
InsertMerging(T, n, d) ==
    LET old == {r \in T : r.name = n}
        merged == [c \in DOMAIN d |->
                     IF d[c].ty = "null" /\ old # {}
                     THEN (CHOOSE r \in old : TRUE).data[c] ELSE d[c]] IN
    {r \in T : r.name # n} \cup {[rowid |-> NextRowid(T), name |-> n, data |-> merged]}
\* a name check that only looks at the type
ValidNameAnyString(name) == name.ty = "str"

\* INSERT OR REPLACE: the UNIQUE constraint on name removes the row that has
\* the same name, then the new row is added under a new rowid
InsertOrReplace(T, n, d) ==
    {r \in T : r.name # n} \cup {[rowid |-> NextRowid(T), name |-> n, data |-> d]}

\* the tuple of column values store() binds: data.get(column) for each column
StoreRow(data) == [c \in DataColumns |-> BindTo(c, DictGet(data, c))]

\* `not name or not isinstance(name, str)` is false
ValidName(name) == Truthy(name) /\ name.ty = "str"

\* `field not in valid_columns` is false
ValidField(field) == field \in Columns

\* self.connections after get_connection() by a thread whose get_ident() is i
GetConnection(i) ==
    IF connections[i].present THEN connections
    ELSE [connections EXCEPT ![i] = Connect]

ConnOrderAfterGet(i) ==
    IF connections[i].present THEN connOrder ELSE Append(connOrder, i)

\* the non-empty string keys among the inputs
Keys == {PyStr("a"), PyStr("b")}
IsKey(name) == name \in Keys

(***************************************************************************)
(* AirQualityMemory and TreeNode as constructed.                           *)
(***************************************************************************)
\* self.connection = self._create_connection(): one connection, made by the
\* thread that constructs the object (the main thread, get_ident() 1) and
\* kept for every caller; _initialize_db commits, so no transaction is open
CreateConnection == [owner |-> 1, inTx |-> FALSE]

\* number of entries of self.children
ChildSlots == 8

\* an absent child, and self.children after set_value
NoChildren == [ty |-> "NoneType", items |-> <<>>]

\* TreeNode(byte_value): self.children = [None] * 8, self.value = None
TreeNode(byte_value) ==
    [byte |-> byte_value,
     children |-> [ty |-> "list", items |-> [k \in 1..ChildSlots |-> PyNone]],
     value |-> PyNone]

(***************************************************************************)
(* Initial state: the store has been constructed by thread 0 on a new      *)
(* database file; __init__ called _initialize_db, which opened the         *)
(* constructing thread's connection, created the table and committed.      *)
(***************************************************************************)
InitWith(path, file) ==
    /\ db_path = path
    /\ database = InitializedDatabase
    /\ history = file
    /\ current_metrics = EmptyMetrics
    /\ alive = [t \in Threads |-> t = 0]
    /\ ident = [t \in Threads |-> 1]
    /\ pc = [t \in Threads |-> "idle"]
    /\ call = [t \in Threads |-> NoCall]
    /\ obs = NoObs
    /\ connections = [i \in Idents |-> IF i = 1 THEN InitializedConn ELSE NoConn]
    /\ connOrder = <<1>>
    /\ table = {}
    /\ writer = {}
    /\ work = {}
    /\ leaked = FALSE
    /\ lastStored = [k \in Keys |-> {}]
    /\ called = {}
    /\ dup = FALSE
    /\ connection = CreateConnection
    /\ air_quality = <<>>
    /\ node = TreeNode("11100000")

\* BiographicalMemory(db_path) on a database file; next to it a new
\* AirQualityMemory and a new TreeNode
Init == InitWith(FilePath, MissingFile)
\* BiographicalMemory(":memory:")
InitMemory == InitWith(MemoryPath, MissingFile)

(***************************************************************************)
(* Threads.                                                                *)
(***************************************************************************)
\* a thread start that may hand out the identifier of a live thread
ThreadStartSharedIdent(t) ==
    /\ t # 0
    /\ ~alive[t]
    /\ \E i \in Idents : ident' = [ident EXCEPT ![t] = i]
    /\ alive' = [alive EXCEPT ![t] = TRUE]
    /\ UNCHANGED <<pc, call, obs, connections, connOrder, table, writer, work,
                   leaked, lastStored, called, dup,
                   connection, air_quality, node, db_path, database, history, current_metrics>>

\* a worker thread starts: its identifier is one no live thread has
ThreadStart(t) ==
    /\ t # 0
    /\ ~alive[t]
    /\ \E i \in Idents \ {ident[u] : u \in {x \in Threads : alive[x]}} :
          ident' = [ident EXCEPT ![t] = i]
    /\ alive' = [alive EXCEPT ![t] = TRUE]
    /\ UNCHANGED <<pc, call, obs, connections, connOrder, table, writer, work,
                   leaked, lastStored, called, dup,
                   connection, air_quality, node, db_path, database, history, current_metrics>>

\* a worker thread returns from its target function; its connection stays in
\* self.connections
ThreadExit(t) ==
    /\ t # 0
    /\ alive[t]
    /\ pc[t] = "idle"
    /\ alive' = [alive EXCEPT ![t] = FALSE]
    /\ ident' = [ident EXCEPT ![t] = 1]
    /\ connections' =
          IF connections[ident[t]].present
          THEN [connections EXCEPT ![ident[t]].orphan = TRUE]
          ELSE connections
    /\ UNCHANGED <<pc, call, obs, connOrder, table, writer, work, leaked,
                   lastStored, called, dup,
                   connection, air_quality, node, db_path, database, history, current_metrics>>

\* thread t returns from its call
Return(t, result) ==
    /\ pc' = [pc EXCEPT ![t] = "idle"]
    /\ call' = [call EXCEPT ![t] = NoCall]
    /\ obs' = result

(***************************************************************************)
(* get_connection() step by step, as threads interleave in it.  The        *)
(* operations below run it as one step.                                    *)
(***************************************************************************)
\* `thread_id = threading.get_ident()` and `if thread_id not in
\* self.connections`: an entry found is returned
GetConnectionCheck(t) ==
    /\ alive[t]
    /\ pc[t] = "idle"
    /\ IF connections[ident[t]].present
       THEN /\ obs' = [NoObs EXCEPT !.op = "get_connection", !.by = {ident[t]},
                                    !.foreign = connections[ident[t]].orphan]
            /\ UNCHANGED pc
       ELSE /\ pc' = [pc EXCEPT ![t] = "connect"]
            /\ UNCHANGED obs
    /\ UNCHANGED <<alive, ident, call, connections, connOrder, table, writer,
                   work, leaked, lastStored, called, dup,
                   connection, air_quality, node, db_path, database, history, current_metrics>>

\* `conn = sqlite3.connect(self.db_path)` and `self.connections[thread_id] =
\* conn`: the entry under the key is set, whatever it was; a new key goes to
\* the end of the dict
GetConnectionInsert(t) ==
    LET i == ident[t] IN
    /\ pc[t] = "connect"
    /\ connections' = [connections EXCEPT ![i] = Connect]
    /\ connOrder' = IF connections[i].present THEN connOrder
                    ELSE Append(connOrder, i)
    /\ pc' = [pc EXCEPT ![t] = "idle"]
    /\ obs' = [NoObs EXCEPT !.op = "get_connection", !.by = {i}]
    /\ UNCHANGED <<alive, ident, call, table, writer, work, leaked,
                   lastStored, called, dup,
                   connection, air_quality, node, db_path, database, history, current_metrics>>

(***************************************************************************)
(* store(name, data)                                                       *)
(***************************************************************************)
\* `raise ValueError("Name must be a non-empty string")`: nothing else runs
StoreInvalid(t, name, data) ==
    /\ alive[t]
    /\ pc[t] = "idle"
    /\ ~ValidName(name)
    /\ obs' = [NoObs EXCEPT !.op = "store", !.name = name,
                            !.raised = "ValueError"]
    /\ UNCHANGED <<alive, ident, pc, call, connections, connOrder, table,
                   writer, work, leaked, lastStored, called, dup,
                   connection, air_quality, node, db_path, database, history, current_metrics>>

\* what a store() that raised reports
StoreObs(t, name, raised) ==
    [NoObs EXCEPT !.op = "store", !.name = name, !.raised = raised,
                  !.foreign = connections[ident[t]].orphan]

\* the name passes the check; get_connection(); cursor.execute(INSERT OR
\* REPLACE ...): BEGIN if the connection is not in a transaction, take the
\* write lock, replace the row
StoreExecute(t, name, data) ==
    LET i == ident[t]
        conns == GetConnection(i) IN
    /\ alive[t]
    /\ pc[t] = "idle"
    /\ ValidName(name)
    /\ conns[i].open
    /\ conns[i].schema
    /\ CanWrite(i)
    /\ NextRowid(WriteBase(i)) <= MaxRowid
    /\ work' = InsertOrReplace(WriteBase(i), BindTo("name", name), StoreRow(data))
    /\ writer' = {i}
    /\ connections' = [conns EXCEPT ![i].inTx = TRUE]
    /\ connOrder' = ConnOrderAfterGet(i)
    /\ pc' = [pc EXCEPT ![t] = "store_commit"]
    /\ call' = [call EXCEPT ![t] =
           [NoCall EXCEPT !.op = "store", !.name = name, !.data = data,
                          !.foreign = connections[i].orphan]]
    /\ called' = called \cup ({name} \cap Keys)
    /\ dup' = (dup \/ name \in called)
    /\ UNCHANGED <<alive, ident, obs, table, leaked, lastStored,
                   connection, air_quality, node, db_path, database, history, current_metrics>>

\* cursor.execute raises OperationalError: the write lock stayed with another
\* connection for the whole timeout, or the connection's pinned snapshot is
\* not the newest.  The except clause logs and re-raises; the transaction
\* that BEGIN opened stays open.
StoreLocked(t, name, data) ==
    LET i == ident[t]
        conns == GetConnection(i) IN
    /\ alive[t]
    /\ pc[t] = "idle"
    /\ ValidName(name)
    /\ conns[i].open
    /\ conns[i].schema
    /\ ~CanWrite(i)
    /\ connections' = [conns EXCEPT ![i].inTx = TRUE]
    /\ connOrder' = ConnOrderAfterGet(i)
    /\ obs' = StoreObs(t, name, "OperationalError")
    /\ called' = called \cup ({name} \cap Keys)
    /\ dup' = (dup \/ name \in called)
    /\ UNCHANGED <<alive, ident, pc, call, table, writer, work, leaked,
                   lastStored,
                   connection, air_quality, node, db_path, database, history, current_metrics>>

\* conn.cursor() raises ProgrammingError: the connection found in
\* self.connections has been closed
StoreOnClosed(t, name, data) ==
    /\ alive[t]
    /\ pc[t] = "idle"
    /\ ValidName(name)
    /\ connections[ident[t]].present
    /\ ~connections[ident[t]].open
    /\ obs' = StoreObs(t, name, "ProgrammingError")
    /\ called' = called \cup ({name} \cap Keys)
    /\ dup' = (dup \/ name \in called)
    /\ UNCHANGED <<alive, ident, pc, call, connections, connOrder, table,
                   writer, work, leaked, lastStored,
                   connection, air_quality, node, db_path, database, history, current_metrics>>

\* cursor.execute raises OperationalError ("no such table: biographies"):
\* the connection is on a database the constructor did not initialize.  The
\* statement fails before BEGIN.
StoreNoTable(t, name, data) ==
    LET i == ident[t]
        conns == GetConnection(i) IN
    /\ alive[t]
    /\ pc[t] = "idle"
    /\ ValidName(name)
    /\ conns[i].open
    /\ ~conns[i].schema
    /\ connections' = conns
    /\ connOrder' = ConnOrderAfterGet(i)
    /\ obs' = StoreObs(t, name, "OperationalError")
    /\ called' = called \cup ({name} \cap Keys)
    /\ dup' = (dup \/ name \in called)
    /\ UNCHANGED <<alive, ident, pc, call, table, writer, work, leaked,
                   lastStored, connection, air_quality, node, db_path, database, history, current_metrics>>

\* the first step of a call store(name, data)
Store(t, name, data) ==
    \/ StoreInvalid(t, name, data)
    \/ StoreNoTable(t, name, data)
    \/ StoreExecute(t, name, data)
    \/ StoreLocked(t, name, data)
    \/ StoreOnClosed(t, name, data)

\* a commit that throws the rows of the transaction away
CommitLost(i) ==
    /\ table' = table
    /\ writer' = IF writer = {i} THEN {} ELSE writer
    /\ work' = IF writer = {i} THEN {} ELSE work
    /\ leaked' = leaked
    /\ connections' = [connections EXCEPT ![i].inTx = FALSE, ![i].pinned = FALSE,
                          ![i].snap = {}, ![i].dirty = FALSE]

\* conn.commit(): the rows become the committed rows, the lock is released,
\* the transaction and its snapshot end
Commit(i) ==
    /\ table' = IF writer = {i} THEN work ELSE table
    /\ writer' = IF writer = {i} THEN {} ELSE writer
    /\ work' = IF writer = {i} THEN {} ELSE work
    /\ leaked' = (leaked \/ (writer = {i} /\ connections[i].dirty))
    /\ connections' = [connections EXCEPT ![i].inTx = FALSE, ![i].pinned = FALSE,
                          ![i].snap = {}, ![i].dirty = FALSE]

StoreCommit(t) ==
    /\ pc[t] = "store_commit"
    /\ Commit(ident[t])
    /\ Return(t, [NoObs EXCEPT !.op = "store", !.name = call[t].name,
                                !.foreign = call[t].foreign])
    /\ lastStored' = IF IsKey(call[t].name)
                     THEN [lastStored EXCEPT ![call[t].name] = {call[t].data}]
                     ELSE lastStored
    /\ UNCHANGED <<alive, ident, connOrder, called, dup,
                   connection, air_quality, node, db_path, database, history, current_metrics>>

(***************************************************************************)
(* retrieve(name, field) and get_all_people()                              *)
(***************************************************************************)
\* the value of a column of a row
FieldOf(r, field) == IF field = "name" THEN r.name ELSE r.data[field]

\* `return result` in place of `result[0] if result else None`
RetrieveWholeRow(T, name, field) ==
    IF {r \in T : r.name = BindTo("name", name)} = {} THEN PyNone
    ELSE [ty |-> "tuple", v |-> ""]

\* `result[0] if result else None` for SELECT field ... WHERE name = ? on rows T
RetrieveResult(T, name, field) ==
    LET found == {r \in T : r.name = BindTo("name", name)} IN
    IF found = {} THEN PyNone
    ELSE SqlToPy(FieldOf(CHOOSE r \in found : TRUE, field))

\* what the SELECT of retrieve meets on rows T
Found(T, name, field) ==
    LET found == {r \in T : r.name = BindTo("name", name)} IN
    IF found = {} THEN "norow"
    ELSE IF FieldOf(CHOOSE r \in found : TRUE, field) = SqlNull THEN "null"
    ELSE "value"

\* a SELECT on connection i: inside an open transaction that has not written,
\* the first read pins the snapshot the later statements of the transaction see
AfterSelect(conns, i) ==
    IF conns[i].inTx /\ writer # {i} /\ ~conns[i].pinned
    THEN [conns EXCEPT ![i].pinned = TRUE, ![i].snap = table]
    ELSE conns

\* a retrieve that raises on a field outside the column set
RetrieveRaising(t, name, field) ==
    /\ alive[t]
    /\ pc[t] = "idle"
    /\ obs' = [NoObs EXCEPT !.op = "retrieve", !.name = name, !.field = field,
                            !.raised = IF field \in Columns THEN "" ELSE "ValueError",
                            !.ret = IF field \in Columns
                                    THEN RetrieveResult(View(ident[t]), name, field)
                                    ELSE PyNone]
    /\ UNCHANGED <<alive, ident, pc, call, connections, connOrder, table,
                   writer, work, leaked, lastStored, called, dup,
                   connection, air_quality, node, db_path, database, history, current_metrics>>

\* a retrieve that calls get_connection() before it checks the field
RetrieveConnectingFirst(t, name, field) ==
    LET i == ident[t]
        conns == GetConnection(i)
        made == [NoObs EXCEPT !.op = "retrieve", !.name = name, !.field = field] IN
    /\ alive[t]
    /\ pc[t] = "idle"
    /\ connOrder' = ConnOrderAfterGet(i)
    /\ IF ~ValidField(field) \/ ~conns[i].open \/ ~conns[i].schema
       THEN /\ connections' = conns
            /\ obs' = made
       ELSE /\ connections' = AfterSelect(conns, i)
            /\ obs' = [made EXCEPT
                         !.ret = RetrieveResult(View(i), name, field),
                         !.found = Found(View(i), name, field)]
    /\ UNCHANGED <<alive, ident, pc, call, table, writer, work, leaked,
                   lastStored, called, dup,
                   connection, air_quality, node, db_path, database, history, current_metrics>>

\* retrieve(name, field): the field check, get_connection(), the SELECT
Retrieve(t, name, field) ==
    LET i == ident[t]
        conns == GetConnection(i)
        made == [NoObs EXCEPT !.op = "retrieve", !.name = name, !.field = field]
        onConn == [made EXCEPT !.foreign = connections[i].orphan,
                               !.want = {DictGet(f, field) : f \in lastStored[name]}] IN
    /\ alive[t]
    /\ pc[t] = "idle"
    /\ IF ~ValidField(field)
       THEN /\ obs' = [made EXCEPT !.ret = PyNone]
            /\ UNCHANGED <<connections, connOrder>>
       ELSE /\ connOrder' = ConnOrderAfterGet(i)
            /\ IF ~conns[i].open
               THEN \* conn.cursor() raises, the except clause returns None
                    /\ connections' = conns
                    /\ obs' = [onConn EXCEPT !.ret = PyNone]
               ELSE IF ~conns[i].schema
               THEN \* the SELECT raises, the except clause returns None
                    /\ connections' = conns
                    /\ obs' = [onConn EXCEPT !.ret = PyNone]
               ELSE /\ connections' = AfterSelect(conns, i)
                    /\ obs' = [onConn EXCEPT
                                 !.ret = RetrieveResult(View(i), name, field),
                                 !.found = Found(View(i), name, field)]
    /\ UNCHANGED <<alive, ident, pc, call, table, writer, work, leaked,
                   lastStored, called, dup,
                   connection, air_quality, node, db_path, database, history, current_metrics>>

\* thread t constructs a second store, BiographicalMemory(self.db_path), and
\* calls retrieve(name, field) on it.  The constructor opens a connection of
\* its own, runs the pragmas and CREATE TABLE IF NOT EXISTS and commits: on a
\* database file that changes no row and needs no write lock, and the SELECT
\* reads the committed rows; an in-memory database is a new, empty one.
ReopenRetrieve(t, name, field) ==
    LET rows == IF db_path = MemoryPath THEN {} ELSE table
        made == [NoObs EXCEPT !.op = "reopen_retrieve", !.name = name,
                              !.field = field] IN
    /\ alive[t]
    /\ pc[t] = "idle"
    /\ obs' = IF ~ValidField(field) THEN made
              ELSE [made EXCEPT
                      !.ret = RetrieveResult(rows, name, field),
                      !.found = Found(rows, name, field),
                      !.want = {DictGet(f, field) : f \in lastStored[name]}]
    /\ UNCHANGED <<alive, ident, pc, call, connections, connOrder, table,
                   writer, work, leaked, lastStored, called, dup,
                   connection, air_quality, node, db_path, database, history, current_metrics>>

(***************************************************************************)
(* Threads that each construct a store of their own on the database file:  *)
(* BiographicalMemory(db_path) -> _initialize_db().  The connection is the *)
(* only one of the new object's map.  On a file that is not in WAL mode    *)
(* "PRAGMA journal_mode=WAL" reads the file header under a shared lock and *)
(* then needs the file to itself: the first connection to ask reserves the *)
(* file and waits for the other readers to leave; a reader that asks while *)
(* the file is reserved is refused at once (waiting would deadlock), and   *)
(* sqlite3 raises OperationalError ("database is locked").                 *)
(***************************************************************************)
\* a database file that holds a record
StoredRow ==
    [rowid |-> 1, name |-> SqlText("a"), data |-> [c \in DataColumns |-> SqlNull]]

\* no store has been constructed in this process; the file is new, or was
\* left by an earlier process
InitConstruct ==
    /\ db_path = FilePath
    /\ \/ database = FreshDatabase /\ table = {}
       \/ database = InitializedDatabase /\ table \in {{}, {StoredRow}}
    /\ history = MissingFile
    /\ current_metrics = EmptyMetrics
    /\ alive = [t \in Threads |-> t = 0]
    /\ ident = [t \in Threads |-> 1]
    /\ pc = [t \in Threads |-> "idle"]
    /\ call = [t \in Threads |-> NoCall]
    /\ obs = NoObs
    /\ connections = [i \in Idents |-> NoConn]
    /\ connOrder = <<>>
    /\ writer = {}
    /\ work = {}
    /\ leaked = FALSE
    /\ lastStored = [k \in Keys |-> {}]
    /\ called = {}
    /\ dup = FALSE
    /\ connection = CreateConnection
    /\ air_quality = <<>>
    /\ node = TreeNode("11100000")

\* what the constructor reports: `found` names the statement that failed
ConstructObs(t, raised, failed) ==
    [NoObs EXCEPT !.op = "construct", !.raised = raised, !.found = failed,
                  !.by = {ident[t]}]

\* __init__, get_connection(), and the first pragma reads the file header
InitializeBegin(t) ==
    /\ alive[t]
    /\ pc[t] = "idle"
    /\ \A u \in Threads : pc[u] # "init_switch"
    /\ pc' = [pc EXCEPT ![t] = "init_pragma"]
    /\ UNCHANGED obs
    /\ UNCHANGED <<alive, ident, call, connections, connOrder, table,
                   writer, work, leaked, lastStored, called, dup,
                   connection, air_quality, node, db_path, database, history, current_metrics>>

\* the file is in WAL mode already: the pragma changes nothing
InitializeKeepMode(t) ==
    /\ pc[t] = "init_pragma"
    /\ database.journal = "wal"
    /\ pc' = [pc EXCEPT ![t] = "init_schema"]
    /\ UNCHANGED obs
    /\ UNCHANGED <<alive, ident, call, connections, connOrder, table,
                   writer, work, leaked, lastStored, called, dup,
                   connection, air_quality, node, db_path, database, history, current_metrics>>

\* the pragma reserves the file for the change of mode
InitializeReserve(t) ==
    /\ pc[t] = "init_pragma"
    /\ database.journal = "delete"
    /\ \A u \in Threads : pc[u] # "init_switch"
    /\ pc' = [pc EXCEPT ![t] = "init_switch"]
    /\ UNCHANGED obs
    /\ UNCHANGED <<alive, ident, call, connections, connOrder, table,
                   writer, work, leaked, lastStored, called, dup,
                   connection, air_quality, node, db_path, database, history, current_metrics>>

\* the pragma finds the file reserved: cursor.execute(pragma) raises, the
\* except clause logs and re-raises, the constructor fails
InitializeRefused(t) ==
    /\ pc[t] = "init_pragma"
    /\ database.journal = "delete"
    /\ \E u \in Threads \ {t} : pc[u] = "init_switch"
    /\ pc' = [pc EXCEPT ![t] = "idle"]
    /\ obs' = ConstructObs(t, "OperationalError", "PRAGMA journal_mode=WAL")
    /\ UNCHANGED <<alive, ident, call, connections, connOrder, table,
                   writer, work, leaked, lastStored, called, dup,
                   connection, air_quality, node, db_path, database, history, current_metrics>>

\* the other readers have left: the file is switched to WAL mode
InitializeSwitch(t) ==
    /\ pc[t] = "init_switch"
    /\ \A u \in Threads \ {t} : pc[u] # "init_pragma"
    /\ database' = [database EXCEPT !.journal = "wal"]
    /\ pc' = [pc EXCEPT ![t] = "init_schema"]
    /\ UNCHANGED <<alive, ident, call, obs, connections, connOrder, table,
                   writer, work, leaked, lastStored, called, dup,
                   connection, air_quality, node, db_path, history, current_metrics>>

\* the other pragmas, CREATE TABLE IF NOT EXISTS and CREATE INDEX IF NOT
\* EXISTS: the table is created when the file has none, which waits for the
\* write lock; a statement that defines a table opens no transaction, and
\* no row is read or written
InitializeSchema(t) ==
    /\ pc[t] = "init_schema"
    /\ ~database.schema => writer = {}
    /\ database' = [database EXCEPT !.schema = TRUE]
    /\ pc' = [pc EXCEPT ![t] = "init_commit"]
    /\ UNCHANGED <<alive, ident, call, obs, connections, connOrder, table,
                   writer, work, leaked, lastStored, called, dup,
                   connection, air_quality, node, db_path, history, current_metrics>>

\* conn.commit() with no transaction open, and the constructor returns
InitializeCommit(t) ==
    /\ pc[t] = "init_commit"
    /\ pc' = [pc EXCEPT ![t] = "idle"]
    /\ obs' = ConstructObs(t, "", "")
    /\ UNCHANGED <<alive, ident, call, connections, connOrder, table,
                   writer, work, leaked, lastStored, called, dup,
                   connection, air_quality, node, db_path, database, history, current_metrics>>

GetAllPeople(t) ==
    LET i == ident[t]
        conns == GetConnection(i)
        made == [NoObs EXCEPT !.op = "get_all_people",
                              !.foreign = connections[i].orphan] IN
    /\ alive[t]
    /\ pc[t] = "idle"
    /\ connOrder' = ConnOrderAfterGet(i)
    /\ IF ~conns[i].open \/ ~conns[i].schema
       THEN \* conn.cursor() or the SELECT raises, the except clause returns []
            /\ connections' = conns
            /\ obs' = [made EXCEPT !.ret = PyList]
       ELSE \* cursor.fetchall() returns the rows of View(i)
            /\ connections' = AfterSelect(conns, i)
            /\ obs' = [made EXCEPT !.ret = PyList, !.rows = View(i)]
    /\ UNCHANGED <<alive, ident, pc, call, table, writer, work, leaked,
                   lastStored, called, dup,
                   connection, air_quality, node, db_path, database, history, current_metrics>>

(***************************************************************************)
(* batch_store(records)                                                    *)
(***************************************************************************)
\* a value is supplied for every named parameter of the INSERT statement
Bindable(r) == Columns \subseteq DOMAIN r

\* the column values executemany binds for a record
RecordRow(r) == [c \in DataColumns |-> BindTo(c, r[c])]

\* cursor.executemany(INSERT OR REPLACE ..., records) from record k on, on
\* rows T: the rows after the last record that was inserted and the error
\* that stopped it ("" when every record was inserted).  A record without a
\* parameter cannot be bound (ProgrammingError); a NULL name fails NOT NULL
\* (IntegrityError), which aborts that statement only.
RECURSIVE ExecuteMany(_, _, _)
ExecuteMany(T, records, k) ==
    IF k > Len(records) THEN [rows |-> T, err |-> ""]
    ELSE IF ~Bindable(records[k]) THEN [rows |-> T, err |-> "ProgrammingError"]
    ELSE IF BindTo("name", records[k]["name"]) = SqlNull
         THEN [rows |-> T, err |-> "IntegrityError"]
    ELSE ExecuteMany(InsertOrReplace(T, BindTo("name", records[k]["name"]),
                                     RecordRow(records[k])),
                     records, k + 1)

\* the first record reaches the engine, so the statement needs the write lock
NeedsLock(records) == Len(records) > 0 /\ Bindable(records[1])

\* what batch_store() reports when it returns
BatchObs(records, raised, foreign) ==
    [NoObs EXCEPT !.op = "batch_store", !.records = records,
                  !.raised = raised, !.foreign = foreign]

\* get_connection(); cursor.executemany(...): BEGIN, then the records one by
\* one; no record is checked first.  When a record fails the except clause
\* logs and re-raises: the rows inserted before it stay in the open
\* transaction, which keeps the write lock.
BatchExecute(t, records) ==
    LET i == ident[t]
        conns == GetConnection(i)
        out == ExecuteMany(WriteBase(i), records, 1) IN
    /\ alive[t]
    /\ pc[t] = "idle"
    /\ conns[i].open
    /\ conns[i].schema
    /\ NeedsLock(records) => CanWrite(i)
    /\ \A r \in out.rows : r.rowid <= MaxRowid
    /\ IF NeedsLock(records)
       THEN /\ work' = out.rows
            /\ writer' = {i}
       ELSE UNCHANGED <<work, writer>>
    /\ connections' = [conns EXCEPT ![i].inTx = TRUE,
                          ![i].dirty = (@ \/ (out.err # "" /\ NeedsLock(records)
                                              /\ out.rows # WriteBase(i)))]
    /\ connOrder' = ConnOrderAfterGet(i)
    /\ IF out.err = ""
       THEN /\ pc' = [pc EXCEPT ![t] = "batch_commit"]
            /\ call' = [call EXCEPT ![t] =
                   [NoCall EXCEPT !.op = "batch_store", !.records = records,
                                  !.foreign = connections[i].orphan]]
            /\ UNCHANGED obs
       ELSE /\ obs' = BatchObs(records, out.err, connections[i].orphan)
            /\ UNCHANGED <<pc, call>>
    /\ UNCHANGED <<alive, ident, table, leaked, lastStored, called, dup,
                   connection, air_quality, node, db_path, database, history, current_metrics>>

\* executemany raises OperationalError: the write lock is not available
BatchLocked(t, records) ==
    LET i == ident[t]
        conns == GetConnection(i) IN
    /\ alive[t]
    /\ pc[t] = "idle"
    /\ conns[i].open
    /\ conns[i].schema
    /\ NeedsLock(records)
    /\ ~CanWrite(i)
    /\ connections' = [conns EXCEPT ![i].inTx = TRUE]
    /\ connOrder' = ConnOrderAfterGet(i)
    /\ obs' = BatchObs(records, "OperationalError", connections[i].orphan)
    /\ UNCHANGED <<alive, ident, pc, call, table, writer, work, leaked,
                   lastStored, called, dup,
                   connection, air_quality, node, db_path, database, history, current_metrics>>

\* executemany raises OperationalError ("no such table: biographies")
BatchNoTable(t, records) ==
    LET i == ident[t]
        conns == GetConnection(i) IN
    /\ alive[t]
    /\ pc[t] = "idle"
    /\ conns[i].open
    /\ ~conns[i].schema
    /\ connections' = conns
    /\ connOrder' = ConnOrderAfterGet(i)
    /\ obs' = BatchObs(records, "OperationalError", connections[i].orphan)
    /\ UNCHANGED <<alive, ident, pc, call, table, writer, work, leaked,
                   lastStored, called, dup, connection, air_quality, node, db_path, database, history, current_metrics>>

\* conn.cursor() raises ProgrammingError on a closed connection
BatchOnClosed(t, records) ==
    /\ alive[t]
    /\ pc[t] = "idle"
    /\ connections[ident[t]].present
    /\ ~connections[ident[t]].open
    /\ obs' = BatchObs(records, "ProgrammingError", connections[ident[t]].orphan)
    /\ UNCHANGED <<alive, ident, pc, call, connections, connOrder, table,
                   writer, work, leaked, lastStored, called, dup,
                   connection, air_quality, node, db_path, database, history, current_metrics>>

\* `list(range(last_id - len(records) + 1, last_id + 1))` for a batch of n
\* records that left rows T: last_insert_rowid() is the rowid of the last
\* row the connection inserted, the largest one of T
BatchIds(T, n) == [k \in 1..n |-> Max({r.rowid : r \in T}) - n + k]

\* the field maps last stored under each key once a batch of records has
\* returned: for a key of the batch, the fields of its last record
LastStoredAfterBatch(ls, records) ==
    [k \in Keys |->
        LET at == {j \in 1..Len(records) : records[j]["name"] = k} IN
        IF at = {} THEN ls[k]
        ELSE {[c \in DataColumns |-> records[Max(at)][c]]}]

\* conn.commit(), then the identifiers are read and returned
BatchCommit(t) ==
    /\ pc[t] = "batch_commit"
    /\ Commit(ident[t])
    /\ Return(t, [BatchObs(call[t].records, "", call[t].foreign) EXCEPT
                     !.ids = BatchIds(WriteBase(ident[t]), Len(call[t].records))])
    /\ lastStored' = LastStoredAfterBatch(lastStored, call[t].records)
    /\ UNCHANGED <<alive, ident, connOrder, called, dup,
                   connection, air_quality, node, db_path, database, history, current_metrics>>

\* the chunk sizes a caller passes as second argument
ChunkSizes == {1, 2}

\* batch_store(records, batch_size): `def batch_store(self, records)` takes
\* no second argument, so the call raises TypeError before the body runs: no
\* connection is looked up and no statement is executed
BatchStoreSized(t, records, batch_size) ==
    /\ alive[t]
    /\ pc[t] = "idle"
    /\ obs' = [BatchObs(records, "TypeError", FALSE) EXCEPT
                  !.batch_size = batch_size]
    /\ UNCHANGED <<alive, ident, pc, call, connections, connOrder, table,
                   writer, work, leaked, lastStored, called, dup,
                   connection, air_quality, node, db_path, database, history, current_metrics>>

\* the `ids` lists passed to batch_retrieve
IdInputs == UNION {[1..n -> 1..(MaxRowid + 1)] : n \in 0..MaxBatch}

\* SELECT * FROM biographies WHERE rowid IN (ids) on rows T
RowsWithIds(T, ids) == {r \in T : \E k \in 1..Len(ids) : r.rowid = ids[k]}

\* batch_retrieve(ids): get_connection(), the SELECT, cursor.fetchall(); the
\* except clause logs and the method returns None
BatchRetrieve(t, ids) ==
    LET i == ident[t]
        conns == GetConnection(i)
        made == [NoObs EXCEPT !.op = "batch_retrieve", !.ids = ids,
                              !.foreign = connections[i].orphan,
                              !.want = RowsWithIds(table, ids)] IN
    /\ alive[t]
    /\ pc[t] = "idle"
    /\ connOrder' = ConnOrderAfterGet(i)
    /\ IF ~conns[i].open \/ ~conns[i].schema
       THEN /\ connections' = conns
            /\ obs' = made
       ELSE /\ connections' = AfterSelect(conns, i)
            /\ obs' = [made EXCEPT !.ret = PyList,
                                   !.rows = RowsWithIds(View(i), ids)]
    /\ UNCHANGED <<alive, ident, pc, call, table, writer, work, leaked,
                   lastStored, called, dup,
                   connection, air_quality, node, db_path, database, history, current_metrics>>

(***************************************************************************)
(* close()                                                                 *)
(***************************************************************************)
\* index of the first connection in dict order that conn.close() refuses
\* because it was created under another thread identifier; Len + 1 if none
RECURSIVE FirstRefused(_, _, _)
FirstRefused(order, me, k) ==
    IF k > Len(order) THEN k
    ELSE IF order[k] # me THEN k
    ELSE FirstRefused(order, me, k + 1)

\* conn.close(): an open transaction is rolled back
ClosedConn(c) == [c EXCEPT !.open = FALSE, !.inTx = FALSE, !.pinned = FALSE,
                           !.snap = {}, !.dirty = FALSE]

\* `for conn in self.connections.values(): conn.close()`, then
\* self.connections.clear() unless a close() raised
Close(t) ==
    LET me == ident[t]
        stop == FirstRefused(connOrder, me, 1)
        closed == {connOrder[k] : k \in 1..(stop - 1)}
        done == stop > Len(connOrder) IN
    /\ alive[t]
    /\ pc[t] = "idle"
    /\ connections' =
          [i \in Idents |->
              IF done THEN NoConn
              ELSE IF i \in closed THEN ClosedConn(connections[i])
              ELSE connections[i]]
    /\ connOrder' = IF done THEN <<>> ELSE connOrder
    /\ table' = IF db_path = MemoryPath /\ (\E i \in closed : connections[i].schema)
                THEN {}  \* an in-memory database ends with its connection
                ELSE table
    /\ writer' = writer \ closed
    /\ work' = IF writer \subseteq closed THEN {} ELSE work
    /\ obs' = [NoObs EXCEPT !.op = "close",
                            !.raised = IF done THEN "" ELSE "ProgrammingError"]
    /\ UNCHANGED <<alive, ident, pc, call, leaked, lastStored, called,
                   dup,
                   connection, air_quality, node, db_path, database, history, current_metrics>>

(***************************************************************************)
(* Specifications.  Spec runs every operation on every input; SpecStore    *)
(* and SpecBatch are the workloads of a store/retrieve client and of a     *)
(* batch_store client, whose state spaces can be explored in full.         *)
(***************************************************************************)
\* threads that call store, retrieve and get_all_people
NextStore ==
    \E t \in Threads :
        \/ ThreadStart(t)
        \/ ThreadExit(t)
        \/ \E name \in StoreNames, data \in StoreData :
              \/ StoreInvalid(t, name, data)
              \/ StoreExecute(t, name, data)
              \/ StoreLocked(t, name, data)
        \/ StoreCommit(t)
        \/ \E name \in RetrieveNames, field \in RetrieveFields :
              Retrieve(t, name, field)
        \/ GetAllPeople(t)

SpecStore == Init /\ [][NextStore]_vars

\* threads that call batch_store, store and get_all_people
NextBatch ==
    \E t \in Threads :
        \/ ThreadStart(t)
        \/ \E records \in BatchWorkload :
              \/ BatchExecute(t, records)
              \/ BatchLocked(t, records)
        \/ BatchCommit(t)
        \/ StoreExecute(t, PyStr("b"), EmptyDict)
        \/ StoreLocked(t, PyStr("b"), EmptyDict)
        \/ StoreCommit(t)
        \/ GetAllPeople(t)

SpecBatch == Init /\ [][NextBatch]_vars

\* batches of records with distinct valid keys, and one whose second record
\* cannot be bound
KeyedBatches ==
    {<<FullRecord(PyStr("a"))>>, <<FullRecord(PyStr("b"))>>,
     <<FullRecord(PyStr("a")), FullRecord(PyStr("b"))>>,
     <<FullRecord(PyStr("a")), NamelessRecord>>}

\* threads that call batch_store with such batches and list the table
NextBatchKeys ==
    \E t \in Threads :
        \/ ThreadStart(t)
        \/ \E records \in KeyedBatches :
              \/ BatchExecute(t, records)
              \/ BatchLocked(t, records)
        \/ BatchCommit(t)
        \/ GetAllPeople(t)

SpecBatchKeys == Init /\ [][NextBatchKeys]_vars

\* threads that call batch_store, store and retrieve
NextStoreAfterBatch ==
    \E t \in Threads :
        \/ ThreadStart(t)
        \/ \E records \in KeyedBatches :
              \/ BatchExecute(t, records)
              \/ BatchLocked(t, records)
        \/ BatchCommit(t)
        \/ \E name \in Keys, data \in StoreData :
              \/ StoreExecute(t, name, data)
              \/ StoreLocked(t, name, data)
        \/ StoreCommit(t)
        \/ \E name \in RetrieveNames, field \in RetrieveFields :
              Retrieve(t, name, field)

SpecStoreAfterBatch == Init /\ [][NextStoreAfterBatch]_vars

\* threads that call batch_store with and without a chunk size
NextBatchSized ==
    \E t \in Threads :
        \/ ThreadStart(t)
        \/ \E records \in KeyedBatches :
              \/ BatchExecute(t, records)
              \/ BatchLocked(t, records)
              \/ \E n \in ChunkSizes : BatchStoreSized(t, records, n)
        \/ BatchCommit(t)
        \/ GetAllPeople(t)

SpecBatchSized == Init /\ [][NextBatchSized]_vars

\* threads that construct stores on the same file
NextConstruct ==
    \E t \in Threads :
        \/ ThreadStart(t)
        \/ ThreadExit(t)
        \/ InitializeBegin(t)
        \/ InitializeKeepMode(t)
        \/ InitializeReserve(t)
        \/ InitializeRefused(t)
        \/ InitializeSwitch(t)
        \/ InitializeSchema(t)
        \/ InitializeCommit(t)

SpecConstruct == InitConstruct /\ [][NextConstruct]_vars

\* threads that store and read rows by their identifiers
NextBatchRetrieve ==
    \E t \in Threads :
        \/ ThreadStart(t)
        \/ \E name \in Keys :
              \/ StoreExecute(t, name, EmptyDict)
              \/ StoreLocked(t, name, EmptyDict)
        \/ StoreCommit(t)
        \/ \E ids \in IdInputs : BatchRetrieve(t, ids)

SpecBatchRetrieve == Init /\ [][NextBatchRetrieve]_vars

\* threads that call batch_store and store and read the key of the batches
NextBatchRead ==
    \E t \in Threads :
        \/ ThreadStart(t)
        \/ \E records \in BatchWorkload :
              \/ BatchExecute(t, records)
              \/ BatchLocked(t, records)
        \/ BatchCommit(t)
        \/ StoreExecute(t, PyStr("b"), EmptyDict)
        \/ StoreLocked(t, PyStr("b"), EmptyDict)
        \/ StoreCommit(t)
        \/ Retrieve(t, PyStr("a"), "name")

SpecBatchRead == Init /\ [][NextBatchRead]_vars

\* threads that store, close the store, and read through a second store
\* opened on the same path
NextReopen ==
    \E t \in Threads :
        \/ ThreadStart(t)
        \/ \E name \in Keys, data \in StoreData :
              \/ StoreExecute(t, name, data)
              \/ StoreLocked(t, name, data)
              \/ StoreOnClosed(t, name, data)
        \/ StoreCommit(t)
        \/ Close(t)
        \/ \E name \in RetrieveNames, field \in RetrieveFields :
              ReopenRetrieve(t, name, field)

SpecReopen == Init /\ [][NextReopen]_vars

\* the batches of the threads that go on using a store after close()
BatchesAfterClose == {<<FullRecord(PyStr("a"))>>}

\* threads that call close() and go on using the same store
NextAfterClose ==
    \E t \in Threads :
        \/ ThreadStart(t)
        \/ \E name \in Keys, data \in StoreData :
              \/ StoreExecute(t, name, data)
              \/ StoreLocked(t, name, data)
              \/ StoreOnClosed(t, name, data)
        \/ StoreCommit(t)
        \/ \E records \in BatchesAfterClose :
              \/ BatchExecute(t, records)
              \/ BatchLocked(t, records)
              \/ BatchOnClosed(t, records)
        \/ BatchCommit(t)
        \/ Close(t)
        \/ \E name \in RetrieveNames, field \in RetrieveFields :
              Retrieve(t, name, field)

SpecAfterClose == Init /\ [][NextAfterClose]_vars

\* threads that run get_connection step by step, next to close and retrieve
NextConnect ==
    \E t \in Threads :
        \/ ThreadStart(t)
        \/ ThreadExit(t)
        \/ GetConnectionCheck(t)
        \/ GetConnectionInsert(t)
        \/ Close(t)
        \/ \E name \in RetrieveNames, field \in RetrieveFields :
              Retrieve(t, name, field)

SpecConnect == Init /\ [][NextConnect]_vars

\* threads on a store constructed with the in-memory path
NextMemory ==
    \E t \in Threads :
        \/ ThreadStart(t)
        \/ \E name \in Keys, data \in StoreData :
              \/ StoreExecute(t, name, data)
              \/ StoreNoTable(t, name, data)
        \/ StoreCommit(t)
        \/ \E name \in RetrieveNames, field \in RetrieveFields :
              Retrieve(t, name, field)
        \/ \E records \in BatchWorkload : BatchNoTable(t, records)

SpecMemory == InitMemory /\ [][NextMemory]_vars

(***************************************************************************)
(* performance_metrics.py: class PerformanceMetrics, used by one thread.   *)
(***************************************************************************)
\* values passed to log_metric
Rates == {0, 1}
BatchSizes == {PyNone, PyInt("0"), PyInt("1")}
\* keys of current_metrics whose value is not a list, and a key it lacks
OtherCategories == {"average_response_times", "no_such_category"}

\* what log_metric appends: a dict when batch_size is truthy, else the value
Sample(value, batch_size) ==
    IF Truthy(batch_size)
    THEN [shape |-> "dict", batch_size |-> batch_size, rate |-> value]
    ELSE [shape |-> "number", batch_size |-> PyNone, rate |-> value]

NumSamples(m) ==
    Len(m.insertion_rates) + Len(m.retrieval_rates) + Len(m.concurrent_rates)

\* a history file found on disk when the PerformanceMetrics object is created
NoKeysRun == [EmptyMetrics EXCEPT !.keys = {}]
HistoryFiles ==
    {MissingFile, HistoryFile("unparseable", <<>>, 0),
     HistoryFile("list", <<>>, 0), HistoryFile("object", <<>>, 0),
     HistoryFile("object", <<>>, 2), HistoryFile("number", <<>>, 0),
     HistoryFile("list", <<NoKeysRun, NoKeysRun>>, 0)}

InitMetrics == \E file \in HistoryFiles : InitWith(FilePath, file)

MetricsObs(op, raised) == [NoObs EXCEPT !.op = op, !.raised = raised]

LogMetric(category, value, batch_size) ==
    /\ NumSamples(current_metrics) < MaxSamples
    /\ current_metrics' =
           [current_metrics EXCEPT ![category] = Append(@, Sample(value, batch_size))]
    /\ obs' = MetricsObs("log_metric", "")
    /\ UNCHANGED <<alive, ident, pc, call, connections, connOrder, table,
                   writer, work, leaked, lastStored, called, dup, connection, air_quality, node, db_path, database,
                   history>>

\* self.current_metrics[category] is a dict or None, or the key is missing
LogMetricRaising(category) ==
    /\ obs' = MetricsObs("log_metric",
                         IF category = "no_such_category" THEN "KeyError"
                         ELSE "AttributeError")
    /\ UNCHANGED <<alive, ident, pc, call, connections, connOrder, table,
                   writer, work, leaked, lastStored, called, dup, connection, air_quality, node, db_path, database,
                   history, current_metrics>>

StartTestRun ==
    /\ current_metrics' = [EmptyMetrics EXCEPT !.stamped = TRUE]
    /\ obs' = MetricsObs("start_test_run", "")
    /\ UNCHANGED <<alive, ident, pc, call, connections, connOrder, table,
                   writer, work, leaked, lastStored, called, dup, connection, air_quality, node, db_path, database,
                   history>>

\* whether json.load of the file gives an object with the method append
IsList(h) == h.kind \in {"missing", "unparseable", "list"}
\* the list save_metrics appends to: [] when the file is missing or is not
\* JSON, else what json.load returned
Loaded(h) == IF h.kind = "list" THEN h.runs ELSE <<>>

SaveMetrics ==
    /\ Len(Loaded(history)) < MaxRuns
    /\ IF IsList(history)
       THEN /\ history' = HistoryFile("list", Append(Loaded(history), current_metrics), 0)
            /\ obs' = MetricsObs("save_metrics", "")
       ELSE \* history.append raises before the file is opened for writing
            /\ history' = history
            /\ obs' = MetricsObs("save_metrics", "AttributeError")
    /\ UNCHANGED <<alive, ident, pc, call, connections, connOrder, table,
                   writer, work, leaked, lastStored, called, dup, connection, air_quality, node, db_path, database,
                   current_metrics>>

\* save_metrics() called by several recorders (threads, or processes each
\* with its own object) on one history file, statement by statement.
\* The file opened with mode 'w' is empty until json.dump has written it.
EmptyFile == HistoryFile("unparseable", <<>>, 0)

\* lines 40-48: the file is read and the run is appended to the list in memory
SaveLoad(t) ==
    /\ alive[t]
    /\ pc[t] = "idle"
    /\ Len(Loaded(history)) < MaxRuns
    /\ IF IsList(history)
       THEN /\ pc' = [pc EXCEPT ![t] = "save_loaded"]
            /\ call' = [call EXCEPT ![t] =
                   [NoCall EXCEPT !.op = "save_metrics", !.records = Loaded(history)]]
            /\ UNCHANGED obs
       ELSE /\ obs' = MetricsObs("save_metrics", "AttributeError")
            /\ UNCHANGED <<pc, call>>
    /\ UNCHANGED history
    /\ UNCHANGED <<alive, ident, connections, connOrder, table,
                   writer, work, leaked, lastStored, called, dup, connection, air_quality, node, db_path,
                   database, current_metrics>>

\* line 50: open(self.filename, 'w') truncates the file
SaveOpen(t) ==
    /\ pc[t] = "save_loaded"
    /\ pc' = [pc EXCEPT ![t] = "save_opened"]
    /\ call' = [call EXCEPT ![t].seen = Loaded(history)]
    /\ history' = EmptyFile
    /\ UNCHANGED obs
    /\ UNCHANGED <<alive, ident, connections, connOrder, table,
                   writer, work, leaked, lastStored, called, dup, connection, air_quality, node, db_path,
                   database, current_metrics>>

\* a dump that appends the run to what the file held when it was opened
SaveDumpAppending(t) ==
    /\ pc[t] = "save_opened"
    /\ history' = HistoryFile("list", Append(call[t].seen, current_metrics), 0)
    /\ Return(t, [MetricsObs("save_metrics", "") EXCEPT
                     !.records = call[t].records,
                     !.found = IF call[t].seen # call[t].records
                               THEN "stale" ELSE ""])
    /\ UNCHANGED <<alive, ident, connections, connOrder, table,
                   writer, work, leaked, lastStored, called, dup, connection, air_quality, node, db_path,
                   database, current_metrics>>

\* line 51: json.dump(history, f) and the file is closed: the bytes are
\* written from the start of the file.  When another recorder has written
\* the file since this one truncated it, the older bytes beyond the end of
\* the new text stay, and the file is not JSON unless the new text is at
\* least as long.
SaveDump(t) ==
    /\ pc[t] = "save_opened"
    /\ \/ history' = HistoryFile("list", Append(call[t].records, current_metrics), 0)
       \/ history # EmptyFile /\ history' = HistoryFile("unparseable", <<>>, 0)
    /\ Return(t, [MetricsObs("save_metrics", "") EXCEPT
                     !.records = call[t].records,
                     !.found = IF call[t].seen # call[t].records
                               THEN "stale" ELSE ""])
    /\ UNCHANGED <<alive, ident, connections, connOrder, table,
                   writer, work, leaked, lastStored, called, dup, connection, air_quality, node, db_path,
                   database, current_metrics>>

Min(a, b) == IF a <= b THEN a ELSE b
\* the exceptions the three try blocks of print_comparison catch
Caught == {"KeyError", "IndexError", "ZeroDivisionError"}

\* one pass of the loop over insertion samples: curr['batch_size'], then
\* (curr['rate'] - prev['rate']) / prev['rate']
InsertionPair(curr, prev) ==
    IF curr.shape # "dict" \/ prev.shape # "dict" THEN "TypeError"
    ELSE IF prev.rate = 0 THEN "ZeroDivisionError"
    ELSE ""
\* (curr - prev) / prev
RetrievalPair(curr, prev) ==
    IF curr.shape # "number" \/ prev.shape # "number" THEN "TypeError"
    ELSE IF prev.rate = 0 THEN "ZeroDivisionError"
    ELSE ""

\* the exception that ends the loop over zip(c, p), "" when it runs to its end
InsertionLoop(c, p) ==
    LET bad == {k \in 1..Min(Len(c), Len(p)) : InsertionPair(c[k], p[k]) # ""} IN
    IF bad = {} THEN ""
    ELSE LET k == CHOOSE x \in bad : \A y \in bad : x <= y IN
         InsertionPair(c[k], p[k])
RetrievalLoop(c, p) ==
    LET bad == {k \in 1..Min(Len(c), Len(p)) : RetrievalPair(c[k], p[k]) # ""} IN
    IF bad = {} THEN ""
    ELSE LET k == CHOOSE x \in bad : \A y \in bad : x <= y IN
         RetrievalPair(c[k], p[k])

\* the exception raised inside each try block, "" when there is none
InsertionBlock(current, previous) ==
    IF "insertion_rates" \notin current.keys \cap previous.keys THEN "KeyError"
    ELSE InsertionLoop(current.insertion_rates, previous.insertion_rates)
RetrievalBlock(current, previous) ==
    IF "retrieval_rates" \notin current.keys \cap previous.keys THEN "KeyError"
    ELSE RetrievalLoop(current.retrieval_rates, previous.retrieval_rates)
ConcurrentBlock(current, previous) ==
    IF "concurrent_rates" \notin current.keys THEN "KeyError"
    ELSE IF current.concurrent_rates = <<>> THEN ""
    ELSE IF "concurrent_rates" \notin previous.keys THEN "KeyError"
    ELSE IF previous.concurrent_rates = <<>> THEN ""
    ELSE RetrievalPair(current.concurrent_rates[Len(current.concurrent_rates)],
                       previous.concurrent_rates[Len(previous.concurrent_rates)])

\* the exception that leaves the three blocks, "" when each one ran to its
\* end or raised an exception its except clause catches
CompareRuns(current, previous) ==
    LET a == InsertionBlock(current, previous)
        b == RetrievalBlock(current, previous)
        c == ConcurrentBlock(current, previous) IN
    IF a \notin Caught \cup {""} THEN a
    ELSE IF b \notin Caught \cup {""} THEN b
    ELSE IF c \notin Caught \cup {""} THEN c
    ELSE ""

\* the exception print_comparison raises on a history file, "" when it returns
CompareOutcome(h) ==
    CASE h.kind \in {"missing", "unparseable"} -> ""
      [] h.kind = "number" -> "TypeError"   \* len(history)
      [] h.kind = "object" ->
            IF h.size < 2 THEN "" ELSE "KeyError"   \* history[-1]
      [] h.kind = "list" ->
            IF Len(h.runs) < 2 THEN ""
            ELSE CompareRuns(h.runs[Len(h.runs)], h.runs[Len(h.runs) - 1])

\* the number of changes the loop over zip(c, p) prints: one for each pair
\* before the first pair that raises
InsertionPrinted(c, p) ==
    LET bad == {k \in 1..Min(Len(c), Len(p)) : InsertionPair(c[k], p[k]) # ""} IN
    IF bad = {} THEN Min(Len(c), Len(p))
    ELSE (CHOOSE x \in bad : \A y \in bad : x <= y) - 1
RetrievalPrinted(c, p) ==
    LET bad == {k \in 1..Min(Len(c), Len(p)) : RetrievalPair(c[k], p[k]) # ""} IN
    IF bad = {} THEN Min(Len(c), Len(p))
    ELSE (CHOOSE x \in bad : \A y \in bad : x <= y) - 1

\* the categories the three blocks print a change for: a block is reached
\* when no block before it raised an exception its except clause lets pass;
\* the third block prints one change, for the last samples, when both lists
\* are non-empty and the division succeeds
ComparedCategories(current, previous) ==
    LET a == InsertionBlock(current, previous)
        b == RetrievalBlock(current, previous)
        c == ConcurrentBlock(current, previous) IN
    {k \in {"insertion_rates"} :
        /\ a # "KeyError"
        /\ InsertionPrinted(current.insertion_rates, previous.insertion_rates) > 0}
    \cup
    {k \in {"retrieval_rates"} :
        /\ a \in Caught \cup {""}
        /\ b # "KeyError"
        /\ RetrievalPrinted(current.retrieval_rates, previous.retrieval_rates) > 0}
    \cup
    {k \in {"concurrent_rates"} :
        /\ a \in Caught \cup {""}
        /\ b \in Caught \cup {""}
        /\ c = ""
        /\ "concurrent_rates" \in current.keys \cap previous.keys
        /\ current.concurrent_rates # <<>>
        /\ previous.concurrent_rates # <<>>}

\* the categories print_comparison prints a change for on a history file
Reported(h) ==
    IF h.kind = "list" /\ Len(h.runs) >= 2
    THEN ComparedCategories(h.runs[Len(h.runs)], h.runs[Len(h.runs) - 1])
    ELSE {}

PrintComparison ==
    /\ obs' = [MetricsObs("print_comparison", CompareOutcome(history)) EXCEPT
                  !.reported = Reported(history)]
    /\ UNCHANGED <<alive, ident, pc, call, connections, connOrder, table,
                   writer, work, leaked, lastStored, called, dup, connection, air_quality, node, db_path, database,
                   history, current_metrics>>

\* every operation of a PerformanceMetrics object
NextMetrics ==
    \/ \E category \in Categories, value \in Rates, batch_size \in BatchSizes :
          LogMetric(category, value, batch_size)
    \/ \E category \in OtherCategories : LogMetricRaising(category)
    \/ StartTestRun
    \/ SaveMetrics
    \/ PrintComparison

SpecMetrics == InitMetrics /\ [][NextMetrics]_vars

\* recorders that save runs to the same history file
NextRecorders ==
    \/ \E t \in Threads :
          \/ ThreadStart(t)
          \/ SaveLoad(t)
          \/ SaveOpen(t)
          \/ SaveDump(t)
    \/ StartTestRun

SpecRecorders == InitMetrics /\ [][NextRecorders]_vars

(***************************************************************************)
(* AirQualityMemory: one connection made by the constructor and used by    *)
(* every caller; store(data_string, timestamp) and get_history(start_date, *)
(* end_date) on table air_quality.  A text is the sequence of its          *)
(* characters; the characters of a timestamp are digits, ordered as their  *)
(* codes are.                                                              *)
(***************************************************************************)
Text(s) == [ty |-> "str", v |-> s]
NoText == [ty |-> "NoneType", v |-> <<>>]

Comma == ","

\* data_string.split(','): the texts between the commas, one more than there
\* are commas
RECURSIVE Split(_)
Split(s) ==
    IF \A k \in 1..Len(s) : s[k] # Comma THEN <<s>>
    ELSE LET k == CHOOSE j \in 1..Len(s) :
                     s[j] = Comma /\ \A m \in 1..(j - 1) : s[m] # Comma IN
         <<SubSeq(s, 1, k - 1)>> \o Split(SubSeq(s, k + 1, Len(s)))

\* the user string load_dataset builds from the fields of a reading
RECURSIVE Join(_)
Join(fields) ==
    IF Len(fields) = 0 THEN <<>>
    ELSE IF Len(fields) = 1 THEN fields[1]
    ELSE fields[1] \o <<Comma>> \o Join(Tail(fields))

\* a reading of n fields
Reading(n) == [k \in 1..n |-> <<"x">>]

\* a data string store accepts
ValidReading == Text(Join(Reading(12)))

\* an accepted data string of empty fields
EmptyReading == Text(Join([k \in 1..12 |-> <<>>]))

\* the data strings passed to store: readings of 11, 12 and 13 fields (a city
\* name with a comma in it adds a field), twelve empty fields, the empty
\* string and None
DataStrings ==
    {Text(Join(Reading(n))) : n \in 11..13} \cup
    {EmptyReading, Text(<<>>), NoText}

\* the timestamps passed to store and the bounds passed to get_history
Timestamps == {NoText, Text(<<>>), Text(<<1>>), Text(<<1, 0>>), Text(<<2>>)}

\* Python truth value of a text or None (`if start_date`)
TruthyText(x) == x.ty = "str" /\ Len(x.v) > 0

\* a <= b as the engine compares TEXT values: character by character, a
\* prefix before the longer text
TextLeq(a, b) ==
    \/ Len(a) <= Len(b) /\ \A m \in 1..Len(a) : a[m] = b[m]
    \/ \E k \in 1..Min(Len(a), Len(b)) :
          a[k] < b[k] /\ \A m \in 1..(k - 1) : a[m] = b[m]

\* store accepts `len(parts) != 12` only
PartsAcceptedFromTwelve(parts) == Len(parts) >= 12

PartsAccepted(parts) == Len(parts) = 12

\* what store(data_string, timestamp) raises when called by the thread with
\* identifier `caller` ("" when it returns): None has no split; the parts
\* are counted; self.connection.cursor() refuses a thread other than the one
\* that made the connection; the INSERT fails NOT NULL for a None timestamp
AirStoreRaises(data_string, timestamp, caller) ==
    IF data_string.ty # "str" THEN "AttributeError"
    ELSE IF ~PartsAccepted(Split(data_string.v)) THEN "ValueError"
    ELSE IF caller # connection.owner THEN "ProgrammingError"
    ELSE IF timestamp.ty # "str" THEN "IntegrityError"
    ELSE ""

AirObs(op, raised) == [NoObs EXCEPT !.op = op, !.raised = raised]

\* store(data_string, timestamp): the INSERT opens a transaction; a row gets
\* the next id (AUTOINCREMENT) and the parts in column order; commit() ends
\* the transaction; after a failed INSERT the transaction stays open
AirStoreCall(t, data_string, timestamp) ==
    LET raised == AirStoreRaises(data_string, timestamp, ident[t])
        row == [id |-> Len(air_quality) + 1,
                parts |-> SubSeq(Split(data_string.v), 1, 12),
                timestamp |-> timestamp.v] IN
    /\ alive[t]
    /\ pc[t] = "idle"
    /\ raised = "" => Len(air_quality) < MaxRowid
    /\ air_quality' = IF raised = "" THEN Append(air_quality, row)
                      ELSE air_quality
    /\ connection' = [connection EXCEPT
                         !.inTx = IF raised = "" THEN FALSE
                                  ELSE IF raised = "IntegrityError" THEN TRUE
                                  ELSE @]
    /\ obs' = [AirObs("air_store", raised) EXCEPT
                  !.data_string = data_string, !.timestamp = timestamp]
    /\ UNCHANGED <<alive, ident, call, connections, connOrder, table,
                   writer, work, leaked, lastStored, called, dup, node,
                   db_path, database, history, current_metrics>>

\* a store called by a thread that goes on to other calls
AirStore(t, data_string, timestamp) ==
    /\ AirStoreCall(t, data_string, timestamp)
    /\ UNCHANGED pc

\* the rows `SELECT * FROM air_quality [WHERE timestamp >= ? [AND]
\* timestamp <= ?]` selects from rows T: a bound is part of the query when it
\* is true in Python
Selected(T, start_date, end_date) ==
    {T[k] : k \in {j \in 1..Len(T) :
        /\ TruthyText(start_date) => TextLeq(start_date.v, T[j].timestamp)
        /\ TruthyText(end_date) => TextLeq(T[j].timestamp, end_date.v)}}

\* ORDER BY timestamp: the rows of S by ascending timestamp, rows of the
\* same timestamp in id order (the order the engine's sorter receives them)
OrderByTimestamp(S) ==
    CHOOSE seq \in [1..Cardinality(S) -> S] :
        /\ \A r \in S : \E k \in 1..Cardinality(S) : seq[k] = r
        /\ \A j, k \in 1..Cardinality(S) :
              j < k => IF seq[j].timestamp = seq[k].timestamp
                       THEN seq[j].id < seq[k].id
                       ELSE TextLeq(seq[j].timestamp, seq[k].timestamp)

\* get_history(start_date, end_date): cursor() refuses a thread other than
\* the connection's; otherwise the SELECT runs and fetchall() returns its rows
GetHistory(t, start_date, end_date) ==
    LET made == [NoObs EXCEPT !.op = "get_history", !.start_date = start_date,
                              !.end_date = end_date] IN
    /\ alive[t]
    /\ pc[t] = "idle"
    /\ obs' = IF ident[t] # connection.owner
              THEN [made EXCEPT !.raised = "ProgrammingError"]
              ELSE [made EXCEPT
                      !.fetched = OrderByTimestamp(
                          Selected(air_quality, start_date, end_date))]
    /\ UNCHANGED <<alive, ident, pc, call, connections, connOrder, table,
                   writer, work, leaked, lastStored, called, dup,
                   connection, air_quality, node,
                   db_path, database, history, current_metrics>>

\* the worker of test_concurrent_storage: one store of a valid reading
\* inside try/except, then the thread function returns
AirWorker(t, timestamp) ==
    /\ t # 0
    /\ AirStoreCall(t, ValidReading, timestamp)
    /\ pc' = [pc EXCEPT ![t] = "finished"]

\* worker threads that each store one reading through the shared object,
\* while the main thread stores readings of empty fields and lists the table
NextAirWorkers ==
    \/ \E t \in Threads :
          \/ ThreadStart(t)
          \/ \E timestamp \in Timestamps \ {NoText} : AirWorker(t, timestamp)
    \/ \E timestamp \in Timestamps \ {NoText} :
          AirStore(0, EmptyReading, timestamp)
    \/ GetHistory(0, NoText, NoText)

SpecAirWorkers == Init /\ [][NextAirWorkers]_vars

\* threads that store readings, with and without a timestamp, and list the
\* table
NextAir ==
    \E t \in Threads :
        \/ ThreadStart(t)
        \/ \E data_string \in DataStrings, timestamp \in {NoText, Text(<<1>>)} :
              AirStore(t, data_string, timestamp)
        \/ GetHistory(t, NoText, NoText)

SpecAir == Init /\ [][NextAir]_vars

\* threads that store valid readings and read ranges of the history
NextHistory ==
    \E t \in Threads :
        \/ ThreadStart(t)
        \/ \E timestamp \in Timestamps : AirStore(t, ValidReading, timestamp)
        \/ \E start_date \in Timestamps, end_date \in Timestamps :
              GetHistory(t, start_date, end_date)

SpecHistory == Init /\ [][NextHistory]_vars

(***************************************************************************)
(* TreeNode: set_child, get_child and set_value on one node.               *)
(***************************************************************************)
\* the indexes passed to set_child and get_child
Indexes == -1..ChildSlots

\* the children passed to set_child and the values passed to set_value
ChildValues == {PyStr("x"), PyStr("y")}
LeafValues == {PyStr("v")}

\* `0 <= index < 8`
ValidIndex(index) == 0 <= index /\ index < ChildSlots

TreeObs(op, index, raised, ret) ==
    [NoObs EXCEPT !.op = op, !.index = index, !.raised = raised, !.ret = ret]

\* set_child(index, child): a valid index assigns self.children[index],
\* which raises TypeError when self.children is None; any other index is
\* ignored
SetChild(index, child) ==
    /\ IF ~ValidIndex(index)
       THEN /\ obs' = TreeObs("set_child", index, "", child)
            /\ UNCHANGED node
       ELSE IF node.children.ty = "NoneType"
       THEN /\ obs' = TreeObs("set_child", index, "TypeError", child)
            /\ UNCHANGED node
       ELSE /\ obs' = TreeObs("set_child", index, "", child)
            /\ node' = [node EXCEPT !.children.items[index + 1] = child]
    /\ UNCHANGED <<alive, ident, pc, call, connections, connOrder, table,
                   writer, work, leaked, lastStored, called, dup,
                   connection, air_quality,
                   db_path, database, history, current_metrics>>

\* what get_child(index) does on node n: a valid index reads
\* self.children[index], which raises TypeError when self.children is None;
\* any other index gives None
GetChildResult(n, index) ==
    IF ~ValidIndex(index) THEN [raised |-> "", ret |-> PyNone]
    ELSE IF n.children.ty = "NoneType" THEN [raised |-> "TypeError", ret |-> PyNone]
    ELSE [raised |-> "", ret |-> n.children.items[index + 1]]

GetChild(index) ==
    /\ obs' = TreeObs("get_child", index, GetChildResult(node, index).raised,
                      GetChildResult(node, index).ret)
    /\ UNCHANGED <<alive, ident, pc, call, connections, connOrder, table,
                   writer, work, leaked, lastStored, called, dup,
                   connection, air_quality, node,
                   db_path, database, history, current_metrics>>

\* set_value(value): self.value = value; self.children = None
SetValue(leaf) ==
    /\ node' = [node EXCEPT !.value = leaf, !.children = NoChildren]
    /\ obs' = TreeObs("set_value", 0, "", leaf)
    /\ UNCHANGED <<alive, ident, pc, call, connections, connOrder, table,
                   writer, work, leaked, lastStored, called, dup,
                   connection, air_quality,
                   db_path, database, history, current_metrics>>

\* every sequence of set_child, get_child and set_value calls on a new node
NextTree ==
    \/ \E index \in Indexes, child \in ChildValues : SetChild(index, child)
    \/ \E index \in Indexes : GetChild(index)
    \/ \E leaf \in LeafValues : SetValue(leaf)

SpecTree == Init /\ [][NextTree]_vars

\* every operation of the store
Next ==
    \E t \in Threads :
        \/ ThreadStart(t)
        \/ ThreadExit(t)
        \/ \E name \in StoreNames, data \in StoreData : Store(t, name, data)
        \/ StoreCommit(t)
        \/ GetConnectionCheck(t)
        \/ GetConnectionInsert(t)
        \/ \E name \in RetrieveNames, field \in RetrieveFields :
              Retrieve(t, name, field)
        \/ \E name \in RetrieveNames, field \in RetrieveFields :
              ReopenRetrieve(t, name, field)
        \/ GetAllPeople(t)
        \/ \E ids \in IdInputs : BatchRetrieve(t, ids)
        \/ \E records \in BatchInputs :
              \/ BatchExecute(t, records)
              \/ BatchLocked(t, records)
              \/ BatchNoTable(t, records)
              \/ BatchOnClosed(t, records)
        \/ BatchCommit(t)
        \/ Close(t)

Spec == Init /\ [][Next]_vars

(***************************************************************************)
(* Properties.                                                             *)
(***************************************************************************)
AllIdle == \A t \in Threads : pc[t] = "idle"
RowsNamed(T, k) == {r \in T : r.name = SqlText(k.v)}
\* the row a field map describes: its own values, NULL for the fields it lacks
WholeRow(f) == [c \in DataColumns |-> IF c \in DOMAIN f THEN BindTo(c, f[c]) ELSE SqlNull]
\* the keys for which some store call returned without raising
Succeeded == {k \in Keys : lastStored[k] # {}}
\* a key that is missing, not a string, or empty
InvalidKey(name) == name.ty # "str" \/ name.v = ""
HasInvalidKey(records) ==
    \E k \in 1..Len(records) :
        \/ "name" \notin DOMAIN records[k]
        \/ InvalidKey(records[k]["name"])

\* C1 as stated: a retrieve of a column of key k returns the value that
\* column has in the map of the most recent store(k, .) that returned
\* without raising.
C1_RetrieveLatestStore ==
    (obs.op = "retrieve" /\ obs.field \in Columns /\ obs.want # {})
        => obs.ret \in obs.want

\* C2 as stated: a batch_store whose records include a missing, non-string or
\* empty key raises an error.
C2_InvalidBatchRaises ==
    (obs.op = "batch_store" /\ HasInvalidKey(obs.records)) => obs.raised # ""

\* C3 as stated: no commit ever publishes rows of a batch_store that raised.
C3_NoPartialCommit == ~leaked

\* C4 as stated: once every thread has finished, and no key was passed to
\* store twice, the table holds exactly one record per store call.
C4_OneRecordPerCall ==
    (AllIdle /\ ~dup) =>
        /\ Cardinality(table) = Cardinality(called)
        /\ \A k \in called : Cardinality(RowsNamed(table, k)) = 1

\* C4, amended: once every thread has finished, and no key was passed to
\* store twice, the table holds exactly one record per store call that
\* returned without raising, and none for a call that raised.
C4_OneRecordPerSuccessfulCall ==
    (AllIdle /\ ~dup) =>
        /\ Cardinality(table) = Cardinality(Succeeded)
        /\ \A k \in Succeeded : Cardinality(RowsNamed(table, k)) = 1
        /\ \A k \in called \ Succeeded : RowsNamed(table, k) = {}

\* a store call of one thread failed on the write lock, the other one landed
C4_Witness ==
    /\ AllIdle /\ ~dup
    /\ called = Keys
    /\ Cardinality(table) = 1
    /\ Cardinality(Succeeded) = 1

\* C5: in every state the table, and every writer's working copy of it, holds
\* at most one record per key, and each record is the whole row of one field
\* map passed to store; once a store of key k has returned, exactly one record
\* with key k exists and it is the row of the map stored last.
C5_AtomicReplace ==
    /\ \A T \in {table, work} :
          /\ \A r1, r2 \in T : r1.name = r2.name => r1 = r2
          /\ \A r \in T : \E f \in StoreData : r.data = WholeRow(f)
    /\ \A k \in Succeeded :
          /\ Cardinality(RowsNamed(table, k)) = 1
          /\ \A r \in RowsNamed(table, k) : \E f \in lastStored[k] : r.data = WholeRow(f)

\* a second store of a key is replacing the record another map left there
C5_Witness ==
    /\ dup
    /\ \E t \in Threads :
          /\ pc[t] = "store_commit"
          /\ \E r \in RowsNamed(table, call[t].name) : r.data # WholeRow(call[t].data)
          /\ \E r \in RowsNamed(work, call[t].name) : r.data = WholeRow(call[t].data)

\* C6 as stated: no call runs on a connection that an exited thread opened.
C6_NoForeignConnection ==
    /\ ~obs.foreign
    /\ \A t \in Threads : ~call[t].foreign

C9_InvalidKeyRejected ==
    [][\A t \in Threads, name \in StoreNames, data \in StoreData :
          (InvalidKey(name) /\ Store(t, name, data)) =>
              /\ obs'.op = "store" /\ obs'.raised = "ValueError"
              /\ UNCHANGED <<connections, connOrder, table, writer, work, pc, call>>]_vars

\* a store with an empty name was rejected while the table held a record
C9_Witness ==
    /\ obs.op = "store" /\ obs.name = PyStr("") /\ obs.raised = "ValueError"
    /\ table # {}

C12_IdsNameTheRows ==
    (obs.op = "batch_store" /\ obs.raised = "") =>
        /\ Len(obs.ids) = Len(obs.records)
        /\ \A k \in 1..Len(obs.records) :
              \E r \in table : /\ r.rowid = obs.ids[k]
                               /\ r.name = SqlText(obs.records[k]["name"].v)

\* C13 as stated: a close by a thread raises nothing, removes that thread's
\* connection from the map and leaves every other entry of the map as it was.
C13_CloseOnlyOwnHandle ==
    [][\A t \in Threads :
          Close(t) =>
              /\ obs'.raised = ""
              /\ ~connections'[ident[t]].present
              /\ \A i \in Idents \ {ident[t]} : connections'[i] = connections[i]]_vars

\* C14 as stated: when a close call ends, every connection is closed and the
\* map is empty.
C14_CloseAllClosesAll ==
    obs.op = "close" =>
        /\ obs.raised = ""
        /\ connOrder = <<>>
        /\ \A i \in Idents : ~connections[i].open

\* C15: every insertion into the map by get_connection finds no entry under
\* the caller's key, leaves the caller with an entry, and leaves the entry of
\* every other key as it was, however the checks and the insertions of the
\* threads interleave.
C15_NoRaceOnInsertion ==
    [][\A t \in Threads :
          GetConnectionInsert(t) =>
              /\ ~connections[ident[t]].present
              /\ connections'[ident[t]].present
              /\ \A i \in Idents \ {ident[t]} : connections'[i] = connections[i]
              /\ Len(connOrder') = Len(connOrder) + 1]_vars

\* two threads have both found no entry of theirs and not yet inserted
C15_Witness ==
    \E t1, t2 \in Threads :
        t1 # t2 /\ pc[t1] = "connect" /\ pc[t2] = "connect"

\* C16 as stated: every connection in the map has had the statements of the
\* configuration list executed on it once, in list order.
C16_EveryConnectionConfigured ==
    \A i \in Idents :
        connections[i].present => connections[i].pragmas = OPTIMIZATION_PRAGMAS

\* C17 as stated: every connection the store has opened is on a database in
\* which the record table exists.
C17_SchemaOnEveryConnection ==
    \A i \in Idents : connections[i].open => connections[i].schema

\* C18 as stated, in its part on the retry: a store fails on the engine's lock
\* only while another connection holds the write lock, so that the same call
\* made again once the lock is released succeeds.
C18_BusyOnlyWhileLocked ==
    [][\A t \in Threads, name \in Keys, data \in StoreData :
          StoreLocked(t, name, data) => writer # {}]_vars

\* C19 as stated: a save makes the history the runs it held before followed
\* by the buffer as one new run, whatever the file held before the call.
C19_SaveAppendsOneRun ==
    [][SaveMetrics =>
          /\ obs'.raised = ""
          /\ history'.kind = "list"
          /\ history'.runs = Append(history.runs, current_metrics)]_vars

\* C20 as stated: the comparison of the last two runs returns without
\* raising, whatever the history file holds.
C20_ComparisonNeverRaises ==
    obs.op = "print_comparison" => obs.raised = ""

\* C21 as stated: a retrieve of a valid field of a key that no store and no
\* batch_store that returned has stored returns None.
C21_UnknownKeyGivesNone ==
    (obs.op = "retrieve" /\ ValidField(obs.field) /\ obs.want = {})
        => obs.ret = PyNone

\* C22 as stated: batch_retrieve returns a list holding exactly the stored
\* records whose identifier occurs in its argument, the empty list when
\* there is none.
C22_ExactlyTheRecordsFound ==
    obs.op = "batch_retrieve" => (obs.ret = PyList /\ obs.rows = obs.want)

\* C23 as stated: a retrieve of a field outside the fixed set of field names
\* opens no connection, executes no statement and leaves the record table
\* and the thread-to-connection map unchanged.
C23_InvalidFieldNoQuery ==
    [][\A t \in Threads, name \in RetrieveNames,
          field \in RetrieveFields \ Columns :
          Retrieve(t, name, field) =>
              UNCHANGED <<connections, connOrder, table, writer, work>>]_vars
\* an invalid field has been asked for while a live thread has no connection
\* and the table has a row
C23_Witness ==
    /\ obs.op = "retrieve"
    /\ ~ValidField(obs.field)
    /\ table # {}
    /\ \E t \in Threads : alive[t] /\ ~connections[ident[t]].present

\* the keys of the records are pairwise distinct and no row of T has one
DistinctNewKeys(records, T) ==
    /\ \A j, k \in 1..Len(records) :
          j # k => records[j]["name"] # records[k]["name"]
    /\ \A k \in 1..Len(records) :
          ~\E r \in T : r.name = BindTo("name", records[k]["name"])

\* C24 as stated: when a batch_store of n records with pairwise distinct keys
\* that are not yet stored returns, the table a list_all() reads has exactly
\* n more rows than before the call, and no two of its rows share a key.
C24_BatchAddsExactlyN ==
    [][\A t \in Threads :
          (BatchCommit(t) /\ DistinctNewKeys(call[t].records, table)) =>
              /\ Cardinality(table') = Cardinality(table) + Len(call[t].records)
              /\ \A r1, r2 \in table' : r1.name = r2.name => r1 = r2]_vars

\* C25 as stated: every construction of a store on the file succeeds,
\* whether the constructions run one after another or at the same time.
C25_EveryConstructionSucceeds ==
    obs.op = "construct" => obs.raised = ""

\* C26 as stated: when a configuration statement fails on a newly opened
\* connection the constructor does not fail: it goes on to the remaining
\* statements and the creation of the schema.
C26_PragmaFailureNotFatal ==
    [][\A t \in Threads :
          InitializeRefused(t) =>
              (obs'.raised = "" /\ pc'[t] = "init_schema")]_vars

\* C27 as stated: when a connection fails to close during the store-wide
\* close, the call still returns without raising and every other tracked
\* connection is closed and removed from the map.
C27_CloseFailureNotRaised ==
    [][\A t \in Threads :
          (Close(t) /\ FirstRefused(connOrder, ident[t], 1) <= Len(connOrder)) =>
              /\ obs'.raised = ""
              /\ \A i \in Idents \ {connOrder[FirstRefused(connOrder, ident[t], 1)]} :
                    ~connections'[i].present]_vars

\* C28 as stated, for log: a log appends exactly one sample to the end of
\* the list of its kind, the sample carries the rate and, whenever a batch
\* size is passed, that batch size; the other kinds, the earlier samples and
\* the history file are unchanged.
C28_LogAppendsOneSample ==
    [][\A category \in Categories, value \in Rates, batch_size \in BatchSizes :
          LogMetric(category, value, batch_size) =>
              LET new == current_metrics'[category]
                  last == new[Len(new)] IN
              /\ SubSeq(new, 1, Len(new) - 1) = current_metrics[category]
              /\ last.rate = value
              /\ batch_size # PyNone =>
                    (last.shape = "dict" /\ last.batch_size = batch_size)
              /\ \A c \in Categories \ {category} :
                    current_metrics'[c] = current_metrics[c]
              /\ history' = history]_vars

\* C29 as stated: once a store or batch_store has returned, normally or with
\* an error, the connection of the calling thread is in no transaction and
\* does not hold the write lock.
C29_NoTransactionAfterReturn ==
    \A t \in Threads :
        (alive[t] /\ pc[t] = "idle") =>
            (~connections[ident[t]].inTx /\ writer # {ident[t]})

\* C30 as stated: a save leaves in the history every run the file held when
\* the save wrote it, followed by the new run, also when the read and write
\* steps of two saves overlap.
C30_NoRunLost ==
    [][\A t \in Threads :
          SaveDump(t) =>
              history' = HistoryFile("list", Append(call[t].seen, current_metrics), 0)]_vars
\* C30 as the code has it: a save replaces the file by the list it read at
\* its start followed by the new run, so a run saved since is lost; when
\* it writes over the text of a save that overlapped with it the file may
\* be left unparseable.
C30_LastWriterWins ==
    [][\A t \in Threads :
          SaveDump(t) =>
              \/ history' = HistoryFile("list", Append(call[t].records, current_metrics), 0)
              \/ history # EmptyFile /\ history'.kind = "unparseable"]_vars
\* a save has replaced a file that had changed since the save read it
C30_Witness ==
    obs.op = "save_metrics" /\ obs.found = "stale" /\ history.kind = "list"

\* C31 as stated: a batch_store(records, batch_size) with batch_size >= 1,
\* called where the same records passed as one chunk would all be inserted
\* and committed, returns normally and leaves the table that one chunk
\* leaves, with the identifiers one chunk returns.
C31_ChunkingInvisible ==
    [][\A t \in Threads : \A records \in KeyedBatches : \A n \in ChunkSizes :
          LET i == ident[t]
              out == ExecuteMany(table, records, 1) IN
          (/\ BatchStoreSized(t, records, n)
           /\ GetConnection(i)[i].open /\ GetConnection(i)[i].schema
           /\ writer = {} /\ Current(i)
           /\ out.err = "") =>
              /\ obs'.raised = ""
              /\ table' = out.rows
              /\ obs'.ids = BatchIds(out.rows, Len(records))]_vars

\* C32 as stated: when the last call that returned is a close() and no call
\* is in progress, the next store, batch_store or retrieve a thread starts
\* runs on an open connection of that thread and does not fail, and the
\* retrieve returns the value the committed record holds in that field.
C32_UsableAfterClose ==
    [][(obs.op = "close" /\ AllIdle) =>
          \A t \in Threads :
             /\ (\E name \in Keys, data \in StoreData :
                    \/ StoreExecute(t, name, data)
                    \/ StoreLocked(t, name, data)
                    \/ StoreOnClosed(t, name, data)) =>
                   /\ connections'[ident[t]].open
                   /\ obs'.op = "store" => obs'.raised = ""
             /\ (\E records \in BatchesAfterClose :
                    \/ BatchExecute(t, records)
                    \/ BatchLocked(t, records)
                    \/ BatchOnClosed(t, records)) =>
                   /\ connections'[ident[t]].open
                   /\ obs'.op = "batch_store" => obs'.raised = ""
             /\ \A name \in RetrieveNames, field \in RetrieveFields :
                   (Retrieve(t, name, field) /\ ValidField(field)) =>
                      /\ connections'[ident[t]].open
                      /\ obs'.ret = RetrieveResult(table, name, field)]_vars

\* C33 as stated: a store(k, f) that returns changes only the record of k:
\* for every other key and every field, the value the stored records hold is
\* the same before and after the call, and the number of stored records
\* grows by one when k was absent and by zero when k was present.
C33_StoreChangesOnlyItsKey ==
    [][\A t \in Threads :
          StoreCommit(t) =>
             /\ \A k \in Keys \ {call[t].name} : \A c \in Columns :
                   RetrieveResult(table', k, c) = RetrieveResult(table, k, c)
             /\ Cardinality(table') = Cardinality(table) +
                   (IF RowsNamed(table, call[t].name) = {} THEN 1 ELSE 0)]_vars

\* C34 as stated: once every worker thread has stored its one valid reading
\* through the shared AirQualityMemory, each of them on a connection of its
\* own, the table holds one row for each worker (next to the rows of other
\* readings that the main thread stored).
C34_OneRowPerWorker ==
    (\A t \in Threads \ {0} : pc[t] = "finished") =>
        /\ Cardinality({k \in 1..Len(air_quality) :
                           air_quality[k].parts = Split(ValidReading.v)})
              = NumWorkers
        /\ \A t \in Threads \ {0} : connection.owner = ident[t]

\* C35 as stated: a comparison run on a saved history of two or more runs
\* prints a change for every category that has samples in both the last run
\* and the run before it, whatever the in-memory buffer holds.
C35_DeltaForEveryCommonKind ==
    [][(PrintComparison /\ history.kind = "list" /\ Len(history.runs) >= 2) =>
          LET current == history.runs[Len(history.runs)]
              previous == history.runs[Len(history.runs) - 1] IN
          \A k \in Categories :
             (/\ k \in current.keys \cap previous.keys
              /\ current[k] # <<>>
              /\ previous[k] # <<>>) => k \in obs'.reported]_vars

\* C36: a store of AirQualityMemory whose data string does not split into
\* exactly 12 parts raises before any statement runs (the rows and the state
\* of the connection stay as they were); a store that returns appends exactly
\* one row, a store that raises leaves the rows unchanged, and no other step
\* changes the rows: the number of rows is the number of stores that returned.
C36_OneRowPerAcceptedStore ==
    [][/\ (/\ obs'.op = "air_store"
           /\ <<obs, air_quality, connection>>' # <<obs, air_quality, connection>>) =>
              /\ (\/ obs'.data_string.ty # "str"
                  \/ Len(Split(obs'.data_string.v)) # 12) =>
                     /\ obs'.raised \in {"ValueError", "AttributeError"}
                     /\ connection' = connection
              /\ obs'.raised = "" =>
                     /\ Len(air_quality') = Len(air_quality) + 1
                     /\ SubSeq(air_quality', 1, Len(air_quality)) = air_quality
              /\ obs'.raised # "" => air_quality' = air_quality
       /\ air_quality' # air_quality => (obs'.op = "air_store" /\ obs'.raised = "")
      ]_vars

\* a malformed data string was refused after MaxRowid readings were stored
C36_Witness ==
    /\ obs.op = "air_store"
    /\ obs.raised = "ValueError"
    /\ Len(Split(obs.data_string.v)) = 13
    /\ Len(air_quality) = MaxRowid

\* C37 as stated: a get_history(start, end) that returns lists exactly the
\* stored rows whose timestamp t satisfies start <= t when a start is passed
\* and t <= end when an end is passed, each once, in ascending order of
\* timestamp, and changes no row.
C37_HistoryIsTheRange ==
    [][(obs'.op = "get_history" /\ obs' # obs /\ obs'.raised = "") =>
          LET start == obs'.start_date
              end == obs'.end_date
              got == obs'.fetched
              range == {r \in {air_quality[k] : k \in 1..Len(air_quality)} :
                          /\ start.ty = "str" => TextLeq(start.v, r.timestamp)
                          /\ end.ty = "str" => TextLeq(r.timestamp, end.v)} IN
          /\ {got[k] : k \in 1..Len(got)} = range
          /\ Len(got) = Cardinality(range)
          /\ \A j, k \in 1..Len(got) :
                j < k => TextLeq(got[j].timestamp, got[k].timestamp)
          /\ air_quality' = air_quality]_vars

\* C38 as stated: in every state that set_child, get_child and set_value
\* calls reach, neither set_child nor get_child raises; a set_child(i, x)
\* with 0 <= i < 8 makes get_child(i) return x and leaves the other seven
\* slots as they were; with any other index set_child changes nothing and
\* get_child returns None.
C38_ChildSlots ==
    [][/\ \A index \in Indexes, child \in ChildValues :
            SetChild(index, child) =>
               /\ obs'.raised = ""
               /\ IF ValidIndex(index)
                  THEN /\ GetChildResult(node', index) =
                             [raised |-> "", ret |-> child]
                       /\ \A other \in (0..(ChildSlots - 1)) \ {index} :
                             GetChildResult(node', other) =
                                GetChildResult(node, other)
                  ELSE node' = node
       /\ \A index \in Indexes :
            GetChild(index) =>
               /\ obs'.raised = ""
               /\ ~ValidIndex(index) => obs'.ret = PyNone
               /\ node' = node]_vars

\* C10 as stated: the table holds at most one record per key and no record
\* whose key is empty or NULL.
C10_KeysUniqueNonEmpty ==
    /\ \A r1, r2 \in table : r1.name = r2.name => r1 = r2
    /\ \A r \in table : r.name # SqlNull /\ r.name # SqlText("")

====
